---------------------------- MODULE Spec2Model ----------------------------
(***************************************************************************)
(* Model of the meter-reading OCR component of src/src/App.tsx (the second *)
(* LocalMeterReadingOCR component, lines 161-612): the React state, the    *)
(* camera handlers, the upload handler, the asynchronous performOCR        *)
(* pipeline and the reading extraction applied to the recognized text.     *)
(* Four harnesses exercise pure parts on their own: the extraction, the    *)
(* extraction of the first component of the file (lines 60-73), the two    *)
(* threshold loops over pixel data, and the crop and upscale geometry.     *)
(*                                                                         *)
(* Text is a sequence of one-character strings.  JavaScript's null,        *)
(* undefined and '' are all falsy and the code only tests them for         *)
(* truthiness, so the three are modelled by the empty sequence.            *)
(***************************************************************************)
EXTENDS Integers, Sequences, FiniteSets, TLC

VARIABLES
    extractedReading,  \* useState: the status or reading shown
    isProcessing,      \* useState
    previewImage,      \* useState: the image shown as preview, 0 for null
    isCameraActive,    \* useState
    ocrDebug,          \* useState: the debug lines of the last extraction
    mounted,           \* the component is mounted: canvasRef and videoRef are set
    canvas,            \* the raster on the one canvas element behind canvasRef
    streamRef,         \* streamRef.current: a stream, 0 for null
    liveStreams,       \* the streams whose tracks have not been stopped
    video,             \* the video element: srcObject, whose handlers, metadata
    cams,              \* the calls of startCamera
    nCams,             \* how many calls of startCamera were made
    runs,              \* the pipeline run of each submitted image
    nImages,           \* how many images were submitted
    nStarted,          \* how many calls of performOCR were made
    nDone,             \* how many calls of performOCR have ended
    cancelled,         \* the runs that were in flight at a retake
    exText,      \* extraction harness: the recognized text handed to the extraction
    exDone,      \* extraction harness: TRUE once the extraction has run on exText
    exReading,   \* extraction harness: the value given to setExtractedReading
    exDebug,     \* extraction harness: the value given to setOcrDebug
    pxData,      \* pixel harness: ImageData.data before the loop, R,G,B,A per pixel
    pxPreset,    \* pixel harness: which binarization loop ran, "none" before
    pxOut,       \* pixel harness: the data after each pass of the loop
    geoPc,       \* geometry harness: how far lines 376-420 have run
    geoImage,    \* geometry harness: the image that has loaded
    geoCanvas,   \* geometry harness: the canvas, then the temporary canvas
    geoRect      \* geometry harness: cropX, cropY, cropWidth, cropHeight

textVars == <<exText, exDone, exReading, exDebug>>
pxVars == <<pxData, pxPreset, pxOut>>
geoVars == <<geoPc, geoImage, geoCanvas, geoRect>>
\* everything outside the component
exVars == <<textVars, pxVars, geoVars>>
pipeVars == <<extractedReading, isProcessing, previewImage, isCameraActive, ocrDebug,
              mounted, canvas, streamRef, liveStreams, video, cams, nCams, runs,
              nImages, nStarted, nDone, cancelled>>
vars == <<pipeVars, exVars>>

(***************************************************************************)
(* Bounds of the model.                                                    *)
(***************************************************************************)
MaxImages == 2       \* most images submitted (captured or uploaded)
MaxCams == 2         \* most calls of startCamera
MaxTextLen == 10     \* longest recognized text the extraction harness builds
MaxNonDigits == 1    \* most non-digit characters in such a text
MaxLenientLen == 8   \* longest recognized text the harness of the first component builds
MaxPixels == 2       \* most pixels of the image data the pixel harness builds
MaxSide == 12        \* largest width and height the geometry harness draws

(***************************************************************************)
(* Characters.                                                             *)
(***************************************************************************)
Digit == {"0", "1", "2", "3", "4", "5", "6", "7", "8", "9"}
Separator == {",", "."}
\* the characters the harness types: two digits, both separators, one other
TypedChars == {"0", "1", ",", ".", "x"}

IsDigit(c) == c \in Digit

RECURSIVE JoinStr(_)
\* a template literal / string value: the characters joined into one string
JoinStr(s) == IF s = <<>> THEN "" ELSE Head(s) \o JoinStr(Tail(s))

\* the least element of a set of positions, 0 when there is none
FirstIndex(S) == IF S = {} THEN 0 ELSE CHOOSE i \in S : \A j \in S : i <= j

(***************************************************************************)
(* Reading extraction, performOCR lines 443-489.                           *)
(***************************************************************************)
IntDigits == 7       \* \d{7}

NoReadingDetected == "No reading detected"
ErrorProcessingImage == "Error processing image"

\* text.replace(/[^\d,.]/g, '')
CleanText(text) == SelectSeq(text, LAMBDA c : c \in Digit \cup Separator)

\* \d{n} matches s at position i
DigitsAt(s, i, n) == /\ i + n - 1 <= Len(s)
                     /\ \A k \in i..(i + n - 1) : IsDigit(s[k])

NoMatch == [ok |-> FALSE, g1 |-> <<>>, g2 |-> <<>>]

\* cleanedText.match(/(\d{7}),(\d)/): the leftmost match
Pattern1(s) ==
    LET i == FirstIndex({j \in 1..Len(s) :
                 /\ DigitsAt(s, j, IntDigits)
                 /\ j + IntDigits + 1 <= Len(s)
                 /\ s[j + IntDigits] = ","
                 /\ IsDigit(s[j + IntDigits + 1])})
    IN  IF i = 0 THEN NoMatch
        ELSE [ok |-> TRUE, g1 |-> SubSeq(s, i, i + IntDigits - 1),
              g2 |-> <<s[i + IntDigits + 1]>>]

\* Pattern2 with the split one place late: the last seven of the eight digits
Pattern2SplitLate(s) ==
    LET i == FirstIndex({j \in 1..Len(s) : DigitsAt(s, j, IntDigits + 1)})
    IN  IF i = 0 THEN NoMatch
        ELSE [ok |-> TRUE, g1 |-> SubSeq(s, i + 1, i + IntDigits),
              g2 |-> <<s[i + IntDigits]>>]

\* cleanedText.match(/(\d{7})(\d)/): the leftmost match
Pattern2(s) ==
    LET i == FirstIndex({j \in 1..Len(s) : DigitsAt(s, j, IntDigits + 1)})
    IN  IF i = 0 THEN NoMatch
        ELSE [ok |-> TRUE, g1 |-> SubSeq(s, i, i + IntDigits - 1),
              g2 |-> <<s[i + IntDigits]>>]

\* Pattern3 with one digit too few: /(\d{6})[,.]?(\d)?/
Pattern3SixDigits(s) ==
    LET i == FirstIndex({j \in 1..Len(s) : DigitsAt(s, j, IntDigits - 1)})
        p == i + IntDigits - 1
        q == IF p <= Len(s) /\ s[p] \in Separator THEN p + 1 ELSE p
    IN  IF i = 0 THEN NoMatch
        ELSE [ok |-> TRUE, g1 |-> SubSeq(s, i, i + IntDigits - 2),
              g2 |-> IF q <= Len(s) /\ IsDigit(s[q]) THEN <<s[q]>> ELSE <<>>]

\* cleanedText.match(/(\d{7})[,.]?(\d)?/): the leftmost match; both optional
\* parts are greedy and nothing follows them, so each is taken when present
Pattern3(s) ==
    LET i == FirstIndex({j \in 1..Len(s) : DigitsAt(s, j, IntDigits)})
        p == i + IntDigits
        q == IF p <= Len(s) /\ s[p] \in Separator THEN p + 1 ELSE p
    IN  IF i = 0 THEN NoMatch
        ELSE [ok |-> TRUE, g1 |-> SubSeq(s, i, i + IntDigits - 1),
              g2 |-> IF q <= Len(s) /\ IsDigit(s[q]) THEN <<s[q]>> ELSE <<>>]

\* `${m[1]},${m[2]}`
WithComma(m) == m.g1 \o <<",">> \o m.g2

\* MatchReading with pattern2 tried before pattern1
MatchReadingEightFirst(cleaned) ==
    LET m1 == Pattern1(cleaned)
        m2 == Pattern2(cleaned)
        m3 == Pattern3(cleaned)
    IN  IF m2.ok THEN [rule |-> "Matched 8 digits", reading |-> WithComma(m2)]
        ELSE IF m1.ok THEN [rule |-> "Matched exact pattern", reading |-> WithComma(m1)]
        ELSE IF m3.ok
             THEN [rule |-> "Matched 7 digits + optional",
                   reading |-> IF m3.g2 # <<>> THEN WithComma(m3) ELSE m3.g1]
        ELSE [rule |-> "none", reading |-> <<>>]

\* lines 453-478: the reading before formatting, with the rule that gave it
MatchReading(cleaned) ==
    LET m1 == Pattern1(cleaned)
        m2 == Pattern2(cleaned)
        m3 == Pattern3(cleaned)
    IN  IF m1.ok THEN [rule |-> "Matched exact pattern", reading |-> WithComma(m1)]
        ELSE IF m2.ok THEN [rule |-> "Matched 8 digits", reading |-> WithComma(m2)]
        ELSE IF m3.ok
             THEN [rule |-> "Matched 7 digits + optional",
                   reading |-> IF m3.g2 # <<>> THEN WithComma(m3) ELSE m3.g1]
        ELSE [rule |-> "none", reading |-> <<>>]

RECURSIVE SplitSep(_)
\* reading.split(/[,.]/): the parts between separators
SplitSep(s) ==
    LET i == FirstIndex({j \in 1..Len(s) : s[j] \in Separator})
    IN  IF i = 0 THEN <<s>>
        ELSE <<SubSeq(s, 1, i - 1)>> \o SplitSep(SubSeq(s, i + 1, Len(s)))

RECURSIVE StripZeros(_)
\* intPart.replace(/^0+/, '')
StripZeros(s) == IF s # <<>> /\ Head(s) = "0" THEN StripZeros(Tail(s)) ELSE s

\* FormatInt without the || '0' fallback
FormatIntNoFallback(intPart) == StripZeros(intPart)

\* lines 481-486: const formattedInt = intPart.replace(/^0+/, '') || '0'
FormatInt(intPart) == IF StripZeros(intPart) = <<>> THEN <<"0">> ELSE StripZeros(intPart)

\* FormatReading that hands the reading on as it was matched
FormatReadingAsMatched(reading) == reading

\* lines 481-486: remove leading zeros; a reading of '' is left as it is
FormatReading(reading) ==
    IF reading = <<>> THEN <<>>
    ELSE LET parts == SplitSep(reading)
             intPart == parts[1]
             decPart == IF Len(parts) >= 2 THEN parts[2] ELSE <<>>
         IN  IF decPart # <<>> THEN FormatInt(intPart) \o <<",">> \o decPart
             ELSE FormatInt(intPart)

\* lines 443-489: what a run hands to setOcrDebug and setExtractedReading.
\* The engine's confidence is not modelled: its debug line carries no value.
Extraction(text) ==
    LET cleaned == CleanText(text)
        m == MatchReading(cleaned)
        final == FormatReading(m.reading)
    IN  [debug |-> <<[tag |-> "Raw text", val |-> JoinStr(text)],
                     [tag |-> "Confidence", val |-> ""],
                     [tag |-> "Cleaned text", val |-> JoinStr(cleaned)]>>
                   \o (IF m.reading # <<>>
                       THEN <<[tag |-> m.rule, val |-> JoinStr(m.reading)],
                              [tag |-> "Final reading", val |-> JoinStr(final)]>>
                       ELSE <<>>),
         reading |-> IF final # <<>> THEN JoinStr(final) ELSE NoReadingDetected]

(***************************************************************************)
(* The component: React state, refs, the shared canvas and the video       *)
(* element.  An image is numbered when it is submitted (captured or        *)
(* chosen); runs[i] is the pipeline run of image i.  A camera call is      *)
(* numbered when startCamera is called; the stream it obtains carries the  *)
(* call's number.  0 stands for null.  debugMessage is not modelled.       *)
(***************************************************************************)
Images == 1..MaxImages
Cams == 1..MaxCams

\* the sizes of the files a user uploads: one too narrow-and-flat to crop, one fine
UploadSizes == {<<2, 3>>, <<4, 4>>}
\* the frame size of the camera once the video has its metadata
VideoSizes == {<<8, 8>>}
\* the texts the recognition engine answers with
RecognizedTexts == {<<"0", "0", "0", "1", "2", "3", "4", ",", "5">>,
                    <<"1", "2", ",", "3">>}

\* a raster: the image it was made from, its size, the stages applied to it
Blank == [img |-> 0, w |-> 0, h |-> 0, ops |-> <<>>]
\* a new canvas element is 300 x 150 and transparent
NewCanvas == [img |-> 0, w |-> 300, h |-> 150, ops |-> <<>>]

IdleRun == [pc |-> "idle", src |-> "none", image |-> Blank, raster |-> Blank,
            text |-> <<>>, calls |-> 0, status |-> "", end |-> "none",
            stages |-> <<>>, startNo |-> 0, doneNo |-> 0]

IdleCam == [pc |-> "idle"]

\* a state setter: React drops the update of an unmounted component
SetState(v, cur) == IF mounted THEN v ELSE cur

PipeInit ==
    /\ extractedReading = ""
    /\ isProcessing = FALSE
    /\ previewImage = 0
    /\ isCameraActive = FALSE
    /\ ocrDebug = <<>>
    /\ mounted = TRUE
    /\ canvas = NewCanvas
    /\ streamRef = 0
    /\ liveStreams = {}
    /\ video = [src |-> 0, handler |-> 0, ready |-> FALSE]
    /\ cams = [c \in Cams |-> IdleCam]
    /\ nCams = 0
    /\ runs = [i \in Images |-> IdleRun]
    /\ nImages = 0
    /\ nStarted = 0
    /\ nDone = 0
    /\ cancelled = {}

(***************************************************************************)
(* Camera: startCamera (190-282), stopCamera (284-290), unmount (181-188). *)
(***************************************************************************)
\* getTracks().forEach(track => track.stop()) on streamRef.current, if any
StopTracks(live, ref) == live \ {ref}

\* lines 190-195: the call runs to its first await, the 100 ms timer
StartCameraCall ==
    /\ nCams' = nCams + 1
    /\ cams' = [cams EXCEPT ![nCams + 1] = [pc |-> "delay"]]

\* lines 545-548: a tap on the start-camera box
ClickStartCamera ==
    /\ mounted /\ previewImage = 0 /\ ~isCameraActive
    /\ nCams < MaxCams
    /\ StartCameraCall
    /\ UNCHANGED <<extractedReading, isProcessing, previewImage, isCameraActive,
                   ocrDebug, mounted, canvas, streamRef, liveStreams, video,
                   runs, nImages, nStarted, nDone, cancelled>>
    /\ UNCHANGED exVars

\* lines 572-575: the retake button: setPreviewImage(null); startCamera().
\* The runs in flight are remembered as cancelled by the retake.
Retake ==
    /\ mounted /\ previewImage # 0 /\ ~isCameraActive
    /\ nCams < MaxCams
    /\ previewImage' = 0
    /\ StartCameraCall
    /\ cancelled' = cancelled \cup {i \in Images : runs[i].pc = "recognizing"}
    /\ UNCHANGED <<extractedReading, isProcessing, isCameraActive, ocrDebug, mounted,
                   canvas, streamRef, liveStreams, video, runs, nImages, nStarted, nDone>>
    /\ UNCHANGED exVars

\* lines 195-220: the timer fires; without a video element the call returns,
\* otherwise it asks for the camera
CamTimerFires(c) ==
    /\ cams[c].pc = "delay"
    /\ cams' = [cams EXCEPT ![c] = [pc |-> IF mounted THEN "getUserMedia" ELSE "done"]]
    /\ UNCHANGED <<extractedReading, isProcessing, previewImage, isCameraActive,
                   ocrDebug, mounted, canvas, streamRef, liveStreams, video,
                   nCams, runs, nImages, nStarted, nDone, cancelled>>
    /\ UNCHANGED exVars

\* lines 223-234: getUserMedia rejects: the call returns
GetUserMediaRejects(c) ==
    /\ cams[c].pc = "getUserMedia"
    /\ cams' = [cams EXCEPT ![c] = [pc |-> "done"]]
    /\ UNCHANGED <<extractedReading, isProcessing, previewImage, isCameraActive,
                   ocrDebug, mounted, canvas, streamRef, liveStreams, video,
                   nCams, runs, nImages, nStarted, nDone, cancelled>>
    /\ UNCHANGED exVars

\* lines 236-272: getUserMedia resolves with stream c: the previous stream is
\* stopped, the new one is given to the video element and to streamRef, and the
\* call's handlers replace the video element's
GetUserMediaResolves(c) ==
    /\ cams[c].pc = "getUserMedia"
    /\ liveStreams' = StopTracks(liveStreams, streamRef) \cup {c}
    /\ streamRef' = c
    /\ video' = [src |-> c, handler |-> c, ready |-> FALSE]
    /\ cams' = [cams EXCEPT ![c] = [pc |-> "metadata"]]
    /\ UNCHANGED <<extractedReading, isProcessing, previewImage, isCameraActive,
                   ocrDebug, mounted, canvas, nCams, runs, nImages, nStarted,
                   nDone, cancelled>>
    /\ UNCHANGED exVars

\* lines 255-266: loadedmetadata of a running stream: the video gets its size,
\* and the handler of the call that set it last plays the video and resolves
\* that call's wait
VideoLoadedMetadata(c) ==
    /\ video.handler = c /\ cams[c].pc = "metadata"
    /\ ~video.ready /\ video.src \in liveStreams
    /\ video' = [video EXCEPT !.ready = TRUE]
    /\ cams' = [cams EXCEPT ![c] = [pc |-> "resume"]]
    /\ UNCHANGED <<extractedReading, isProcessing, previewImage, isCameraActive,
                   ocrDebug, mounted, canvas, streamRef, liveStreams, nCams, runs,
                   nImages, nStarted, nDone, cancelled>>
    /\ UNCHANGED exVars

\* lines 268-271: the video element reports an error instead: the wait is
\* resolved too, and the video has no size
VideoError(c) ==
    /\ video.handler = c /\ cams[c].pc = "metadata"
    /\ ~video.ready
    /\ cams' = [cams EXCEPT ![c] = [pc |-> "resume"]]
    /\ UNCHANGED <<extractedReading, isProcessing, previewImage, isCameraActive,
                   ocrDebug, mounted, canvas, streamRef, liveStreams, video, nCams,
                   runs, nImages, nStarted, nDone, cancelled>>
    /\ UNCHANGED exVars

\* lines 274-275: after the wait: setIsCameraActive(true)
CamResumes(c) ==
    /\ cams[c].pc = "resume"
    /\ isCameraActive' = SetState(TRUE, isCameraActive)
    /\ cams' = [cams EXCEPT ![c] = [pc |-> "done"]]
    /\ UNCHANGED <<extractedReading, isProcessing, previewImage, ocrDebug, mounted,
                   canvas, streamRef, liveStreams, video, nCams, runs, nImages,
                   nStarted, nDone, cancelled>>
    /\ UNCHANGED exVars

\* lines 181-188: the component unmounts: the cleanup stops the tracks of
\* streamRef.current; the refs to the canvas and the video element become null
Unmount ==
    /\ mounted
    /\ mounted' = FALSE
    /\ liveStreams' = StopTracks(liveStreams, streamRef)
    /\ UNCHANGED <<extractedReading, isProcessing, previewImage, isCameraActive,
                   ocrDebug, canvas, streamRef, video, cams, nCams, runs, nImages,
                   nStarted, nDone, cancelled>>
    /\ UNCHANGED exVars

(***************************************************************************)
(* Image stages on the canvas.                                             *)
(***************************************************************************)
\* DrawImage that leaves the canvas as it was
DrawImageStale(cv, image) == cv

\* canvas.width = img.width; canvas.height = img.height; ctx.drawImage(img, 0, 0)
DrawImage(cv, image) == [img |-> image.img, w |-> image.w, h |-> image.h, ops |-> image.ops]

\* lines 338-347: the threshold loop of handleFileChange
BinarizeGeneric(cv) == [cv EXCEPT !.ops = Append(@, "binarize_generic")]

\* lines 383-386
CropWidth(w) == (w * 75) \div 100
CropHeight(h) == (h * 25) \div 100
\* line 385 taking half the crop's width instead of half the margin
CropXHalfWidth(w) == CropWidth(w) \div 2
\* lines 385-386
CropX(w) == (w - CropWidth(w)) \div 2
CropY(h) == (h - CropHeight(h)) \div 2

\* line 389: getImageData throws IndexSizeError for a width or height of 0
GetImageDataThrows(sw, sh) == sw = 0 \/ sh = 0

\* lines 389-394: the canvas shrunk to the cropped region
Crop(cv) == [cv EXCEPT !.w = CropWidth(cv.w), !.h = CropHeight(cv.h),
                       !.ops = Append(@, "crop")]

\* lines 397-414: the threshold loop of performOCR
BinarizeLcd(cv) == [cv EXCEPT !.ops = Append(@, "binarize_lcd")]

\* lines 417-429 with the sizes rounded to the nearest integer, halves upwards
UpscaleRounded(cv) == [cv EXCEPT !.w = (cv.w * 25 + 5) \div 10,
                                 !.h = (cv.h * 25 + 5) \div 10,
                                 !.ops = Append(@, "upscale")]

\* lines 417-429: drawn on a new canvas; a canvas size is an integer, so the
\* product with 2.5 is truncated
Upscale(cv) == [cv EXCEPT !.w = (cv.w * 25) \div 10, !.h = (cv.h * 25) \div 10,
                          !.ops = Append(@, "upscale")]

(***************************************************************************)
(* Submitting an image: captureImage (292-314), handleFileChange (316-356).*)
(***************************************************************************)
\* lines 358-368: performOCR up to its first await, the load of the image
PerformOCRStart(i, src, url) ==
    /\ isProcessing' = SetState(TRUE, isProcessing)
    /\ extractedReading' = SetState("", extractedReading)
    /\ runs' = [runs EXCEPT ![i] = [@ EXCEPT !.pc = "loading", !.src = src,
                                              !.image = url, !.stages = url.ops,
                                              !.status = "",
                                              !.startNo = nStarted + 1]]
    /\ nStarted' = nStarted + 1

\* lines 284-290 and 292-314: the capture button: the frame is drawn on the
\* canvas (nothing, and 0 x 0, while the video has no metadata), the camera is
\* stopped and performOCR is called with the canvas as a data URL
CaptureImage(size) ==
    /\ mounted /\ isCameraActive
    /\ nImages < MaxImages
    /\ LET i == nImages + 1
           frame == IF video.ready
                    THEN [img |-> i, w |-> size[1], h |-> size[2], ops |-> <<>>]
                    ELSE [img |-> i, w |-> 0, h |-> 0, ops |-> <<>>]
           cv == DrawImage(canvas, frame)
       IN  /\ canvas' = cv
           /\ previewImage' = i
           /\ nImages' = i
           /\ IF streamRef # 0
              THEN /\ liveStreams' = StopTracks(liveStreams, streamRef)
                   /\ streamRef' = 0
                   /\ isCameraActive' = FALSE
              ELSE UNCHANGED <<liveStreams, streamRef, isCameraActive>>
           /\ PerformOCRStart(i, "camera", cv)
    /\ UNCHANGED <<ocrDebug, mounted, video, cams, nCams, nDone, cancelled>>
    /\ UNCHANGED exVars

\* lines 316-319 and 354: a file is chosen and the reader starts on it
ChooseFile(size) ==
    /\ mounted /\ previewImage = 0 /\ ~isCameraActive
    /\ nImages < MaxImages
    /\ nImages' = nImages + 1
    /\ runs' = [runs EXCEPT ![nImages + 1] =
                   [@ EXCEPT !.pc = "reading", !.src = "upload",
                             !.image = [img |-> nImages + 1, w |-> size[1],
                                        h |-> size[2], ops |-> <<>>]]]
    /\ UNCHANGED <<extractedReading, isProcessing, previewImage, isCameraActive,
                   ocrDebug, mounted, canvas, streamRef, liveStreams, video, cams,
                   nCams, nStarted, nDone, cancelled>>
    /\ UNCHANGED exVars

\* lines 320-351: reader.onload: the preview is set and the image is decoded
ReaderOnload(i) ==
    /\ runs[i].pc = "reading"
    /\ previewImage' = SetState(i, previewImage)
    /\ runs' = [runs EXCEPT ![i].pc = "decoding"]
    /\ UNCHANGED <<extractedReading, isProcessing, isCameraActive, ocrDebug, mounted,
                   canvas, streamRef, liveStreams, video, cams, nCams, nImages,
                   nStarted, nDone, cancelled>>
    /\ UNCHANGED exVars

\* lines 325-350: img.onload of handleFileChange: without a canvas it returns;
\* otherwise the image is drawn, put through the threshold loop and performOCR
\* is called with the canvas as a data URL.  getContext('2d') is taken to give
\* the context of the canvas whenever there is a canvas.
UploadImgOnload(i) ==
    /\ runs[i].pc = "decoding"
    /\ IF ~mounted
       THEN /\ runs' = [runs EXCEPT ![i].pc = "dropped"]
            /\ UNCHANGED <<canvas, isProcessing, extractedReading, nStarted>>
       ELSE LET cv == BinarizeGeneric(DrawImage(canvas, runs[i].image))
            IN  /\ canvas' = cv
                /\ PerformOCRStart(i, "upload", cv)
    /\ UNCHANGED <<previewImage, isCameraActive, ocrDebug, mounted, streamRef,
                   liveStreams, video, cams, nCams, nImages, nDone, cancelled>>
    /\ UNCHANGED exVars

(***************************************************************************)
(* performOCR after its awaits (358-497).                                  *)
(***************************************************************************)
\* the finally block and the bookkeeping of a run that ends
EndRun(i, how, status, stages) ==
    /\ isProcessing' = SetState(FALSE, isProcessing)
    /\ runs' = [runs EXCEPT ![i] = [@ EXCEPT !.pc = "done", !.end = how,
                                              !.status = status, !.stages = stages,
                                              !.doneNo = nDone + 1]]
    /\ nDone' = nDone + 1

\* lines 370-441: the image has loaded (an empty data URL never loads).  The run
\* returns without a canvas; otherwise it draws the image, crops it
\* (getImageData throws on an empty region: the catch block sets the error
\* status), binarizes, upscales on a new canvas and calls the recognition
\* engine once.
ImageLoaded(i) ==
    /\ runs[i].pc = "loading"
    /\ runs[i].image.w > 0 /\ runs[i].image.h > 0
    /\ LET drawn == DrawImage(canvas, runs[i].image)
           cropped == BinarizeLcd(Crop(drawn))
           scaled == Upscale(cropped)
       IN  IF ~mounted
           THEN /\ EndRun(i, "noCanvas", runs[i].status, runs[i].stages)
                /\ UNCHANGED <<canvas, extractedReading>>
           ELSE IF GetImageDataThrows(CropWidth(drawn.w), CropHeight(drawn.h))
           THEN /\ canvas' = drawn
                /\ extractedReading' = SetState(ErrorProcessingImage, extractedReading)
                /\ EndRun(i, "cropThrows", ErrorProcessingImage, drawn.ops)
           ELSE /\ canvas' = cropped
                /\ runs' = [runs EXCEPT ![i] = [@ EXCEPT !.pc = "recognizing",
                                !.raster = scaled,
                                !.stages = Append(scaled.ops, "recognize"),
                                !.calls = @ + 1]]
                /\ UNCHANGED <<extractedReading, isProcessing, nDone>>
    /\ UNCHANGED <<previewImage, isCameraActive, ocrDebug, mounted, streamRef,
                   liveStreams, video, cams, nCams, nImages, nStarted, cancelled>>
    /\ UNCHANGED exVars

\* lines 364-368: the image does not load (the data URL of a canvas without
\* pixels is "data:,"): only onload was set, so the error event resolves
\* nothing and the run stays at its await
ImageLoadFails(i) ==
    /\ runs[i].pc = "loading"
    /\ runs[i].image.w = 0 \/ runs[i].image.h = 0
    /\ runs' = [runs EXCEPT ![i] = [@ EXCEPT !.pc = "loadFailed"]]
    /\ UNCHANGED <<extractedReading, isProcessing, previewImage, isCameraActive,
                   ocrDebug, mounted, canvas, streamRef, liveStreams, video, cams,
                   nCams, nImages, nStarted, nDone, cancelled>>
    /\ UNCHANGED exVars

\* lines 443-489 and 494-496: the engine answers with a text
RecognizeResolves(i, text) ==
    /\ runs[i].pc = "recognizing"
    /\ LET x == Extraction(text)
       IN  /\ ocrDebug' = SetState(x.debug, ocrDebug)
           /\ extractedReading' = SetState(x.reading, extractedReading)
           /\ isProcessing' = SetState(FALSE, isProcessing)
           /\ runs' = [runs EXCEPT ![i] = [@ EXCEPT !.pc = "done", !.end = "resolved",
                                  !.text = text, !.status = x.reading,
                                  !.stages = Append(@, "extract"),
                                  !.doneNo = nDone + 1]]
           /\ nDone' = nDone + 1
    /\ UNCHANGED <<previewImage, isCameraActive, mounted, canvas, streamRef,
                   liveStreams, video, cams, nCams, nImages, nStarted, cancelled>>
    /\ UNCHANGED exVars

\* the run after a rejected recognition that calls the engine again
AfterRejectRetry(run) == [run EXCEPT !.calls = @ + 1]

\* lines 491-496: the run after a rejected recognition: it ends
AfterReject(run) == [run EXCEPT !.pc = "done", !.end = "rejected",
                                !.status = ErrorProcessingImage]

\* lines 491-496: the engine fails: the catch block sets the error status
RecognizeRejects(i) ==
    /\ runs[i].pc = "recognizing"
    /\ extractedReading' = SetState(ErrorProcessingImage, extractedReading)
    /\ isProcessing' = SetState(FALSE, isProcessing)
    /\ runs' = [runs EXCEPT ![i] = [AfterReject(@) EXCEPT !.doneNo = nDone + 1]]
    /\ nDone' = nDone + 1
    /\ UNCHANGED <<previewImage, isCameraActive, ocrDebug, mounted, canvas, streamRef,
                   liveStreams, video, cams, nCams, nImages, nStarted, cancelled>>
    /\ UNCHANGED exVars

PipeNext ==
    \/ ClickStartCamera
    \/ Retake
    \/ \E c \in Cams : CamTimerFires(c)
    \/ \E c \in Cams : GetUserMediaRejects(c)
    \/ \E c \in Cams : GetUserMediaResolves(c)
    \/ \E c \in Cams : VideoLoadedMetadata(c)
    \/ \E c \in Cams : VideoError(c)
    \/ \E c \in Cams : CamResumes(c)
    \/ Unmount
    \/ \E size \in VideoSizes : CaptureImage(size)
    \/ \E size \in UploadSizes : ChooseFile(size)
    \/ \E i \in Images : ReaderOnload(i)
    \/ \E i \in Images : UploadImgOnload(i)
    \/ \E i \in Images : ImageLoaded(i)
    \/ \E i \in Images : ImageLoadFails(i)
    \/ \E i \in Images, text \in RecognizedTexts : RecognizeResolves(i, text)
    \/ \E i \in Images : RecognizeRejects(i)

(***************************************************************************)
(* The extraction harness: a recognized text is built one character at a   *)
(* time and then handed to the extraction.                                 *)
(***************************************************************************)
NonDigits(s) == Len(SelectSeq(s, LAMBDA c : ~IsDigit(c)))

ExInit ==
    /\ exText = <<>>
    /\ exDone = FALSE
    /\ exReading = ""
    /\ exDebug = <<>>

\* the engine's text grows by one character
ExType(c) ==
    /\ ~exDone
    /\ Len(exText) < MaxTextLen
    /\ IsDigit(c) \/ NonDigits(exText) < MaxNonDigits
    /\ exText' = Append(exText, c)
    /\ UNCHANGED <<exDone, exReading, exDebug>>
    /\ UNCHANGED <<pipeVars, pxVars, geoVars>>

\* lines 443-489 on the text built so far
ExExtract ==
    /\ ~exDone
    /\ exDone' = TRUE
    /\ exReading' = Extraction(exText).reading
    /\ exDebug' = Extraction(exText).debug
    /\ UNCHANGED exText
    /\ UNCHANGED <<pipeVars, pxVars, geoVars>>

ExNext == (\E c \in TypedChars : ExType(c)) \/ ExExtract

(***************************************************************************)
(* The extraction of the first component (lines 60-73), which looks for    *)
(* numbers with a decimal point, and its harness.                          *)
(***************************************************************************)
\* text.match(/\d{1,4}\.\d{3}/): the leftmost match, <<>> for null.  From a
\* given start the digits up to the period are forced, so backtracking over
\* {1,4} finds the one length that fits, if any.
MeterReadingMatch(text) ==
    LET fits(i, k) == /\ DigitsAt(text, i, k)
                      /\ i + k <= Len(text) /\ text[i + k] = "."
                      /\ DigitsAt(text, i + k + 1, 3)
        i == FirstIndex({j \in 1..Len(text) : \E k \in 1..4 : fits(j, k)})
    IN  IF i = 0 THEN <<>>
        ELSE LET k == CHOOSE n \in 1..4 : fits(i, n)
             IN  SubSeq(text, i, i + k + 3)

\* the last position of the run of digits that starts at i
RECURSIVE DigitRunEnd(_, _)
DigitRunEnd(s, i) ==
    IF i < Len(s) /\ IsDigit(s[i + 1]) THEN DigitRunEnd(s, i + 1) ELSE i

\* text.match(/\d+\.\d+/g) from position p on: the matches from left to right,
\* each one taken greedily and the search resumed behind it; <<>> for null
RECURSIVE NumericValuesFrom(_, _)
NumericValuesFrom(text, p) ==
    LET starts(i) == /\ IsDigit(text[i])
                     /\ LET j == DigitRunEnd(text, i)
                        IN  /\ j + 2 <= Len(text)
                            /\ text[j + 1] = "."
                            /\ IsDigit(text[j + 2])
        i == FirstIndex({j \in p..Len(text) : starts(j)})
    IN  IF i = 0 THEN <<>>
        ELSE LET e == DigitRunEnd(text, DigitRunEnd(text, i) + 2)
             IN  <<SubSeq(text, i, e)>> \o NumericValuesFrom(text, e + 1)

NumericValues(text) == NumericValuesFrom(text, 1)

\* v put into a list that is sorted by (a, b) => b.length - a.length, behind
\* the values that are as long as v: Array.prototype.sort is stable
RECURSIVE InsertByLength(_, _)
InsertByLength(sorted, v) ==
    IF sorted = <<>> \/ Len(Head(sorted)) < Len(v) THEN <<v>> \o sorted
    ELSE <<Head(sorted)>> \o InsertByLength(Tail(sorted), v)

\* the sort with the comparison turned round: a.length - b.length
RECURSIVE SortedValuesShortestFirst(_)
SortedValuesShortestFirst(values) ==
    IF values = <<>> THEN <<>>
    ELSE LET rest == SortedValuesShortestFirst(SubSeq(values, 1, Len(values) - 1))
             v == values[Len(values)]
             longer == SelectSeq(rest, LAMBDA w : Len(w) > Len(v))
             others == SelectSeq(rest, LAMBDA w : Len(w) <= Len(v))
         IN  others \o <<v>> \o longer

\* lines 65-67: numericValues.sort((a, b) => b.length - a.length)
RECURSIVE SortedValues(_)
SortedValues(values) ==
    IF values = <<>> THEN <<>>
    ELSE InsertByLength(SortedValues(SubSeq(values, 1, Len(values) - 1)),
                        values[Len(values)])

\* lines 60-73: the value given to setExtractedReading
LenientReading(text) ==
    LET meterReadingMatch == MeterReadingMatch(text)
        numericValues == NumericValues(text)
    IN  IF meterReadingMatch # <<>> THEN JoinStr(meterReadingMatch)
        ELSE IF numericValues # <<>> THEN JoinStr(SortedValues(numericValues)[1])
        ELSE NoReadingDetected

\* the characters the harness types for the first component: two digits, the
\* period, and one character that is neither
LenientChars == {"0", "1", ".", "x"}

\* the engine's text grows by one character
LenType(c) ==
    /\ ~exDone
    /\ Len(exText) < MaxLenientLen
    /\ exText' = Append(exText, c)
    /\ UNCHANGED <<exDone, exReading, exDebug>>
    /\ UNCHANGED <<pipeVars, pxVars, geoVars>>

\* lines 60-73 on the text built so far
LenExtract ==
    /\ ~exDone
    /\ exDone' = TRUE
    /\ exReading' = LenientReading(exText)
    /\ UNCHANGED <<exText, exDebug>>
    /\ UNCHANGED <<pipeVars, pxVars, geoVars>>

LenNext == (\E c \in LenientChars : LenType(c)) \/ LenExtract

(***************************************************************************)
(* The two threshold loops on ImageData.data, a flat array of R, G, B, A   *)
(* per pixel.  Brightness is kept in thousandths, where the weights are    *)
(* whole numbers.  JavaScript computes in doubles: for the loop of         *)
(* performOCR the outcome is the exact one for every R, G, B in 0..255     *)
(* (3 * brightness is never 416, the nearest values are 1/1000 away); for  *)
(* the loop of handleFileChange it is the exact one except where the       *)
(* brightness is exactly 127, see RoundedAbove.                            *)
(***************************************************************************)
\* line 402
LcdBrightness(r, g, b) == 299 * r + 587 * g + 114 * b
\* line 403
contrast == 3
\* line 404
threshold == 160

\* lines 406-407 without the contrast stretch
LcdNewValueNoContrast(r, g, b) ==
    IF LcdBrightness(r, g, b) > threshold * 1000 THEN 255 ELSE 0

\* lines 406-407
LcdNewValue(r, g, b) ==
    LET adjustedBrightness == contrast * (LcdBrightness(r, g, b) - 128000) + 128000
    IN  IF adjustedBrightness > threshold * 1000 THEN 255 ELSE 0

\* lines 401-412: for (let i = 0; i < data.length; i += 4), R, G and B are
\* overwritten and data[i + 3] is not touched
RECURSIVE LcdLoop(_, _)
LcdLoop(data, i) ==
    IF i > Len(data) THEN data
    ELSE LET newValue == LcdNewValue(data[i], data[i + 1], data[i + 2])
         IN  LcdLoop([data EXCEPT ![i] = newValue, ![i + 1] = newValue,
                                  ![i + 2] = newValue], i + 4)

\* lines 339-340
GenericBrightness(r, g, b) == 340 * r + 500 * g + 160 * b
\* line 341
uploadThreshold == 127
\* 0.34 * r + 0.5 * g + 0.16 * b is exactly 127 for 2625 triples; in doubles the
\* sum comes out as 127.00000000000001 for 449 of them, of which these are two
RoundedAbove == {<<19, 211, 94>>, <<61, 161, 161>>}

\* line 342 with the two outcomes exchanged
GenericNewValueInverted(r, g, b) ==
    IF GenericBrightness(r, g, b) > uploadThreshold * 1000 THEN 0 ELSE 255

\* line 342
GenericNewValue(r, g, b) ==
    IF \/ GenericBrightness(r, g, b) > uploadThreshold * 1000
       \/ /\ GenericBrightness(r, g, b) = uploadThreshold * 1000
          /\ <<r, g, b>> \in RoundedAbove
    THEN 255 ELSE 0

\* lines 338-346
RECURSIVE GenericLoop(_, _)
GenericLoop(data, i) ==
    IF i > Len(data) THEN data
    ELSE LET newValue == GenericNewValue(data[i], data[i + 1], data[i + 2])
         IN  GenericLoop([data EXCEPT ![i] = newValue, ![i + 1] = newValue,
                                      ![i + 2] = newValue], i + 4)

ThresholdLoop(preset, data) ==
    IF preset = "lcd" THEN LcdLoop(data, 1) ELSE GenericLoop(data, 1)

(***************************************************************************)
(* The pixel harness: image data is built one pixel at a time, then one of *)
(* the two loops runs over it, and then once more over its own output.     *)
(***************************************************************************)
\* the pixels the harness draws: black, white, the greys on both sides of the
\* two thresholds, the primaries, mixed colours whose brightness is exactly
\* 127 (one of them rounded above), and alphas other than 255
PixelSamples ==
    {<<0, 0, 0, 255>>, <<255, 255, 255, 255>>, <<127, 127, 127, 255>>,
     <<128, 128, 128, 0>>, <<138, 138, 138, 255>>, <<139, 139, 139, 77>>,
     <<255, 0, 0, 255>>, <<0, 255, 0, 128>>, <<0, 0, 255, 255>>,
     <<19, 211, 94, 255>>, <<20, 210, 95, 255>>, <<255, 255, 0, 0>>}

Presets == {"lcd", "generic"}

PxInit ==
    /\ pxData = <<>>
    /\ pxPreset = "none"
    /\ pxOut = <<>>

\* one more pixel in the image data
PxAddPixel(p) ==
    /\ pxPreset = "none"
    /\ Len(pxData) < 4 * MaxPixels
    /\ pxData' = pxData \o p
    /\ UNCHANGED <<pxPreset, pxOut>>
    /\ UNCHANGED <<pipeVars, textVars, geoVars>>

\* lines 338-346 or 401-412 over the image data
PxBinarize(preset) ==
    /\ pxPreset = "none"
    /\ pxPreset' = preset
    /\ pxOut' = <<ThresholdLoop(preset, pxData)>>
    /\ UNCHANGED pxData
    /\ UNCHANGED <<pipeVars, textVars, geoVars>>

\* the same loop over the data it has produced
PxBinarizeAgain ==
    /\ Len(pxOut) = 1
    /\ pxOut' = Append(pxOut, ThresholdLoop(pxPreset, pxOut[1]))
    /\ UNCHANGED <<pxData, pxPreset>>
    /\ UNCHANGED <<pipeVars, textVars, geoVars>>

PxNext ==
    \/ \E p \in PixelSamples : PxAddPixel(p)
    \/ \E preset \in Presets : PxBinarize(preset)
    \/ PxBinarizeAgain

(***************************************************************************)
(* The geometry harness: an image of some size is drawn on the canvas,     *)
(* cropped, and scaled up on the temporary canvas.                         *)
(***************************************************************************)
GeoInit ==
    /\ geoPc = "none"
    /\ geoImage = Blank
    /\ geoCanvas = NewCanvas
    /\ geoRect = [x |-> 0, y |-> 0, w |-> 0, h |-> 0]

\* lines 376-380: an image that has loaded is drawn
GeoDraw(w, h) ==
    /\ geoPc = "none"
    /\ geoPc' = "drawn"
    /\ geoImage' = [img |-> 0, w |-> w, h |-> h, ops |-> <<>>]
    /\ geoCanvas' = DrawImage(geoCanvas, geoImage')
    /\ UNCHANGED geoRect
    /\ UNCHANGED <<pipeVars, textVars, pxVars>>

\* lines 383-394
GeoCrop ==
    /\ geoPc = "drawn"
    /\ geoRect' = [x |-> CropX(geoCanvas.w), y |-> CropY(geoCanvas.h),
                   w |-> CropWidth(geoCanvas.w), h |-> CropHeight(geoCanvas.h)]
    /\ IF GetImageDataThrows(CropWidth(geoCanvas.w), CropHeight(geoCanvas.h))
       THEN geoPc' = "threw" /\ UNCHANGED geoCanvas
       ELSE geoPc' = "cropped" /\ geoCanvas' = Crop(geoCanvas)
    /\ UNCHANGED geoImage
    /\ UNCHANGED <<pipeVars, textVars, pxVars>>

\* lines 397-429
GeoUpscale ==
    /\ geoPc = "cropped"
    /\ geoPc' = "scaled"
    /\ geoCanvas' = Upscale(BinarizeLcd(geoCanvas))
    /\ UNCHANGED <<geoImage, geoRect>>
    /\ UNCHANGED <<pipeVars, textVars, pxVars>>

GeoNext ==
    \/ \E w \in 1..MaxSide, h \in 1..MaxSide : GeoDraw(w, h)
    \/ GeoCrop
    \/ GeoUpscale

(***************************************************************************)
(* Specifications: the component, and each harness on its own.             *)
(***************************************************************************)
Init == PipeInit /\ ExInit /\ PxInit /\ GeoInit

Next == PipeNext

Spec == Init /\ [][Next]_vars

SpecExtract == Init /\ [][ExNext]_vars

SpecLenient == Init /\ [][LenNext]_vars

SpecPixel == Init /\ [][PxNext]_vars

SpecGeometry == Init /\ [][GeoNext]_vars

(***************************************************************************)
(* Properties of the extraction.                                           *)
(***************************************************************************)
\* the digits of d from its first non-zero digit on, "0" when there is none
Normalized(d) ==
    LET nz == {i \in 1..Len(d) : d[i] # "0"}
    IN  IF nz = {} THEN <<"0">> ELSE SubSeq(d, FirstIndex(nz), Len(d))

AllDigits(s) == \A k \in 1..Len(s) : s[k] \in Digit

\* "D,e": seven digits, a comma, one digit
ShapeA(c) == Len(c) = 9 /\ AllDigits(SubSeq(c, 1, 7)) /\ c[8] = "," /\ c[9] \in Digit
\* "De": eight digits
ShapeB(c) == Len(c) = 8 /\ AllDigits(c)
\* "D": seven digits
ShapeC(c) == Len(c) = 7 /\ AllDigits(c)

\* the debug lines name this rule as the one that matched, on this reading
RuleFired(rule, reading) ==
    \E i \in DOMAIN exDebug : exDebug[i] = [tag |-> rule, val |-> JoinStr(reading)]

\* C3: cleaned text "D,e" is matched by Rule A and gives D,e; cleaned text "De"
\* is matched by Rule B and gives the same reading; cleaned text "D" is matched
\* by Rule C and gives D with no fractional part (integer part normalized).
C3_ExtractionPrecedence ==
    exDone =>
        LET c == CleanText(exText)
            d == SubSeq(c, 1, 7)
        IN  /\ ShapeA(c) => /\ RuleFired("Matched exact pattern", d \o <<",", c[9]>>)
                            /\ exReading = JoinStr(Normalized(d) \o <<",", c[9]>>)
            /\ ShapeB(c) => /\ RuleFired("Matched 8 digits", d \o <<",", c[8]>>)
                            /\ exReading = JoinStr(Normalized(d) \o <<",", c[8]>>)
            /\ ShapeC(c) => /\ RuleFired("Matched 7 digits + optional", d)
                            /\ exReading = JoinStr(Normalized(d))

C3_Witness == exDone /\ ShapeB(exText) /\ exText[1] = "0" /\ exText[2] = "1"
                     /\ exReading = JoinStr(SubSeq(exText, 2, 7) \o <<",", exText[8]>>)

\* seven digits, one of the separators seps, one digit, starting at position i of c
OccursAt(c, i, seps) ==
    /\ i + 8 <= Len(c)
    /\ AllDigits(SubSeq(c, i, i + 6))
    /\ c[i + 7] \in seps
    /\ c[i + 8] \in Digit

\* the extraction returned the reading of the leftmost occurrence, if there is one
LeftmostOccurrenceWins(seps) ==
    exDone =>
        LET c == CleanText(exText)
        IN  \A i \in 1..Len(c) :
                (OccursAt(c, i, seps) /\ \A j \in 1..(i - 1) : ~OccursAt(c, j, seps))
                => exReading = JoinStr(Normalized(SubSeq(c, i, i + 6)) \o <<",", c[i + 8]>>)

\* C4 as stated: for a comma or a period, the leftmost "7 digits, separator,
\* digit" of the cleaned text is the reading returned.
C4_RuleAFirstEitherSeparator == LeftmostOccurrenceWins({",", "."})

\* C4 amended: for a comma, the leftmost "7 digits, comma, digit" of the cleaned
\* text is the reading returned, also when the text holds an 8-digit run.
C4_RuleAFirstComma == LeftmostOccurrenceWins({","})

\* an 8-digit run ends at the comma, so Rule B would have split it differently
C4_Witness ==
    /\ exDone
    /\ Len(exText) = 10 /\ AllDigits(SubSeq(exText, 1, 8)) /\ exText[9] = ","
    /\ exText[1] # exText[8] /\ exText[10] \in Digit
    /\ exReading = JoinStr(Normalized(SubSeq(exText, 2, 8)) \o <<",", exText[10]>>)

\* C5: whenever a reading is produced its integer part is the seven matched
\* digits without leading zeros, "0" when all seven are zero, and the
\* fractional digit, when there is one, follows a comma unchanged.
C5_LeadingZeros ==
    exDone =>
        LET r == MatchReading(CleanText(exText)).reading
        IN  /\ Len(r) = 7 => exReading = JoinStr(Normalized(r))
            /\ Len(r) = 9 => exReading = JoinStr(Normalized(SubSeq(r, 1, 7)) \o <<",", r[9]>>)
            /\ Len(r) \in {0, 7, 9}

C5_Witness == exDone /\ exText = <<"0", "0", "0", "0", "0", "0", "0", ",", "1">>
                     /\ exReading = "0,1"

\* C6: a text whose cleaned form has no run of seven digits gives
\* 'No reading detected', neither a reading nor the error status.
C6_NoMatch ==
    exDone =>
        LET c == CleanText(exText)
        IN  (\A i \in 1..Len(c) : \E k \in i..(i + 6) : k > Len(c) \/ c[k] \notin Digit)
            => exReading = NoReadingDetected

C6_Witness == exDone /\ exText = <<"1", "0", ",", "1">> /\ exReading = NoReadingDetected

(***************************************************************************)
(* Properties of the pipeline runs.                                        *)
(***************************************************************************)
Started(i) == runs[i].startNo > 0
Finished(i) == runs[i].pc = "done"

\* C1: when run a was started before run b, b is the last run started, and a's
\* recognition resolves after b's, the reading shown at the end is the one
\* derived from b's recognized text.
C1_LastSubmittedWins ==
    \A a, b \in Images :
        ( /\ mounted
          /\ Started(a) /\ runs[a].startNo < runs[b].startNo
          /\ runs[b].startNo = nStarted /\ nDone = nStarted
          /\ runs[a].end = "resolved" /\ runs[b].end = "resolved"
          /\ runs[b].doneNo < runs[a].doneNo )
        => extractedReading = Extraction(runs[b].text).reading

\* C2: once a retake has cancelled a run, the end of that run's recognition
\* changes neither extractedReading nor ocrDebug.
C2_RetakeDiscards ==
    [][\A i \in cancelled :
          (runs[i].pc = "recognizing" /\ runs'[i].pc = "done")
          => (extractedReading' = extractedReading /\ ocrDebug' = ocrDebug)]_vars

\* the run of image i got as far as the call of the recognition engine
ReachedRecognition(i) == runs[i].pc = "recognizing" \/ runs[i].end \in {"resolved", "rejected"}

\* C7 as stated: every image whose run has ended got exactly one call of the
\* recognition engine.
C7_ExactlyOneCall == \A i \in Images : Finished(i) => runs[i].calls = 1

\* C7 amended: no image gets more than one call of the recognition engine; it
\* gets one exactly when its run reaches the recognition step; and a run whose
\* call failed has ended with that one call.
C7_AtMostOneCallNoRetry ==
    \A i \in Images :
        /\ runs[i].calls <= 1
        /\ runs[i].calls = 1 <=> ReachedRecognition(i)
        /\ runs[i].end = "rejected" => (Finished(i) /\ runs[i].calls = 1)

\* a failed call is followed by a call for a new image only
C7_Witness ==
    \E i, j \in Images :
        /\ runs[i].end = "rejected" /\ runs[i].calls = 1
        /\ runs[j].startNo > runs[i].startNo /\ runs[j].calls = 1
        /\ runs[j].doneNo > runs[i].doneNo

\* the failure mode a finished run ended in, "none" for a reading
FailureMode(i) ==
    IF ~Finished(i) THEN "none"
    ELSE IF runs[i].end = "rejected" THEN "engine failure"
    ELSE IF runs[i].end = "resolved" /\ runs[i].status = NoReadingDetected THEN "no reading"
    ELSE IF runs[i].end \in {"cropThrows", "noCanvas"} THEN "invalid geometry"
    ELSE "none"

\* C8: while the component is mounted, runs that ended in different failure
\* modes set different statuses, and a run that ended in a failure mode set
\* some status.
C8_DistinctFailureStatuses ==
    mounted =>
    /\ \A i, j \in Images :
          (FailureMode(i) # "none" /\ FailureMode(j) # "none"
             /\ FailureMode(i) # FailureMode(j))
          => runs[i].status # runs[j].status
    /\ \A i \in Images : FailureMode(i) # "none" => runs[i].status # ""

\* C9: the image a run loads and the raster it sends to the recognition engine
\* are made from the run's own image, whatever the other runs drew on the
\* canvas in between.
C9_OwnRaster ==
    \A i \in Images :
        /\ Started(i) => runs[i].image.img = i
        /\ runs[i].calls > 0 => runs[i].raster.img = i

\* two runs were in flight together, the later one submitted through the canvas
\* before the earlier one came back to it, and both sent their own raster
C9_Witness ==
    \E i, j \in Images :
        /\ i # j
        /\ runs[i].startNo < runs[j].startNo
        /\ runs[i].pc = "recognizing" /\ runs[j].pc = "recognizing"
        /\ runs[i].raster.img = i /\ runs[j].raster.img = j
        /\ canvas.img = i

\* the pipeline stage an operation belongs to
StageOf(op) == IF op \in {"binarize_generic", "binarize_lcd"} THEN "binarize" ELSE op

ForwardStages == <<"crop", "binarize", "upscale", "recognize", "extract">>

\* C10: the stages a run has applied so far are the first stages of crop,
\* binarization, upscaling, recognition, extraction, in this order, each once.
C10_ForwardStageOrder ==
    \A i \in Images :
        /\ Len(runs[i].stages) <= Len(ForwardStages)
        /\ \A k \in 1..Len(runs[i].stages) : StageOf(runs[i].stages[k]) = ForwardStages[k]

(***************************************************************************)
(* Properties of the threshold loops.                                      *)
(***************************************************************************)
\* the R, G, B, A of pixel k (from 1) of image data
PixelAt(data, k) == SubSeq(data, 4 * k - 3, 4 * k)

\* brightness = 0.299 R + 0.587 G + 0.114 B and adjusted = 3.0 * (brightness -
\* 128) + 128 exceeds 160, both sides taken a thousand times
LcdWhite(px) ==
    3 * ((299 * px[1] + 587 * px[2] + 114 * px[3]) - 128000) + 128000 > 160000

\* C11: with the LCD preset every output pixel is (255,255,255,A) when the
\* adjusted brightness of the input pixel at the same position exceeds 160 and
\* (0,0,0,A) otherwise, A being that input pixel's alpha.
C11_LcdPixelRule ==
    pxPreset = "lcd" =>
        /\ Len(pxOut[1]) = Len(pxData)
        /\ \A k \in 1..(Len(pxData) \div 4) :
              LET in == PixelAt(pxData, k)
              IN  PixelAt(pxOut[1], k) =
                      IF LcdWhite(in) THEN <<255, 255, 255, in[4]>>
                                      ELSE <<0, 0, 0, in[4]>>

\* two pixels, the first turned black and the second white, neither opaque
C11_Witness ==
    /\ pxPreset = "lcd"
    /\ pxData = <<128, 128, 128, 0, 139, 139, 139, 77>>
    /\ pxOut[1] = <<0, 0, 0, 0, 255, 255, 255, 77>>

\* C12: binarization is idempotent for both presets: the loop run over its own
\* output leaves every pixel as it is.
C12_Idempotent ==
    Len(pxOut) = 2 => pxOut[2] = pxOut[1]

\* the upload loop has run twice over a pixel it turns white and one it turns black
C12_Witness ==
    /\ Len(pxOut) = 2
    /\ pxPreset = "generic"
    /\ pxData = <<19, 211, 94, 255, 255, 0, 0, 255>>
    /\ pxOut[2] = <<255, 255, 255, 255, 0, 0, 0, 255>>

(***************************************************************************)
(* Properties of the crop and of the upscaling.                            *)
(***************************************************************************)
\* C13: whenever the crop has positive extent it lies inside the image:
\* cropX >= 0, cropY >= 0, cropX + cropWidth <= W and cropY + cropHeight <= H.
C13_RegionContainment ==
    (geoPc # "none" /\ geoPc # "drawn" /\ geoRect.w > 0 /\ geoRect.h > 0) =>
        /\ geoRect.x >= 0
        /\ geoRect.y >= 0
        /\ geoRect.x + geoRect.w <= geoImage.w
        /\ geoRect.y + geoRect.h <= geoImage.h

\* a crop of positive extent whose margins are not whole halves
C13_Witness ==
    /\ geoPc = "cropped"
    /\ geoImage.w = 7 /\ geoImage.h = 9
    /\ geoRect = [x |-> 1, y |-> 3, w |-> 5, h |-> 2]

(***************************************************************************)
(* Properties of the runs of performOCR, continued.                        *)
(***************************************************************************)
\* the image has a size, and its crop has width 0 or height 0
EmptyCrop(image) ==
    /\ image.w > 0 /\ image.h > 0
    /\ CropWidth(image.w) = 0 \/ CropHeight(image.h) = 0

Binarized(stages) ==
    \E k \in 1..Len(stages) : stages[k] \in {"binarize_generic", "binarize_lcd"}

\* C14: a run whose image is so small that the crop has zero width or zero
\* height issues no recognition call, and it ends with the error status and no
\* reading, before any binarization was applied to the image.
C14_EmptyCropFailsBeforeBinarization ==
    mounted =>
        \A i \in Images :
            (Started(i) /\ EmptyCrop(runs[i].image)) =>
                /\ runs[i].calls = 0
                /\ Finished(i) => /\ runs[i].status = ErrorProcessingImage
                                  /\ runs[i].end = "cropThrows"
                                  /\ ~Binarized(runs[i].stages)

(***************************************************************************)
(* Properties of the extraction of the first component.                    *)
(***************************************************************************)
\* the first of the longest values of a non-empty list
FirstLongest(values) ==
    values[FirstIndex({k \in 1..Len(values) :
                          \A j \in 1..Len(values) : Len(values[j]) <= Len(values[k])})]

\* one to four digits, a period and three digits stand at position i of s
ShortFormAt(s, i) ==
    \E k \in 1..4 :
        /\ i + k + 3 <= Len(s)
        /\ \A j \in i..(i + k + 3) : IF j = i + k THEN s[j] = "." ELSE IsDigit(s[j])

\* the occurrence of that form at position i
ShortForm(s, i) ==
    LET k == CHOOSE n \in 1..4 : i + n <= Len(s) /\ s[i + n] = "."
    IN  SubSeq(s, i, i + k + 3)

\* C15 as stated: the lenient mode returns the longest of the numeric tokens
\* with a decimal point, and 'No reading detected' exactly when there is none.
C15_LongestToken ==
    exDone =>
        LET tokens == NumericValues(exText)
        IN  IF tokens = <<>> THEN exReading = NoReadingDetected
            ELSE exReading = JoinStr(FirstLongest(tokens))

\* C15 amended: where one to four digits, a period and three digits occur, the
\* leftmost such occurrence is returned; otherwise the first of the longest
\* tokens is; 'No reading detected' is returned exactly when there is no token.
C15_ShortFormThenLongestToken ==
    exDone =>
        LET tokens == NumericValues(exText)
            at == FirstIndex({i \in 1..Len(exText) : ShortFormAt(exText, i)})
        IN  /\ (exReading = NoReadingDetected) <=> (tokens = <<>>)
            /\ at # 0 => exReading = JoinStr(ShortForm(exText, at))
            /\ (at = 0 /\ tokens # <<>>) => exReading = JoinStr(FirstLongest(tokens))

\* a text with two tokens and no short form, the second token the longer one
C15_Witness ==
    /\ exDone
    /\ exText = <<"0", ".", "1", "x", "1", ".", "0", "1">>
    /\ exReading = "1.01"

(***************************************************************************)
(* Properties of the camera.                                               *)
(***************************************************************************)
\* C16: no acquired stream is left with live tracks: once the component is
\* unmounted no stream is live, also when the unmount came while startCamera
\* was awaiting the camera or the metadata, and while it is mounted the only
\* stream that can be live is the one streamRef holds, which a capture stops.
C16_StreamsReleased ==
    /\ ~mounted => liveStreams = {}
    /\ liveStreams \subseteq {streamRef}

(***************************************************************************)
(* Properties of the upscaling.                                            *)
(***************************************************************************)
\* n is x rounded to the nearest integer, halves upwards, for x = num / 2
RoundedHalf(n, num) == 2 * n <= num + 1 /\ num + 1 < 2 * n + 2

\* n is the integer part of x = num / 2
FloorHalf(n, num) == 2 * n <= num /\ num < 2 * n + 2

\* C17 as stated: the upscaled raster of a binarized region of width w and
\* height h is round(w * 2.5) wide and round(h * 2.5) high.
C17_UpscaledRound ==
    geoPc = "scaled" =>
        /\ RoundedHalf(geoCanvas.w, 5 * geoRect.w)
        /\ RoundedHalf(geoCanvas.h, 5 * geoRect.h)

\* C17 amended: it is floor(w * 2.5) wide and floor(h * 2.5) high.
C17_UpscaledFloor ==
    geoPc = "scaled" =>
        /\ FloorHalf(geoCanvas.w, 5 * geoRect.w)
        /\ FloorHalf(geoCanvas.h, 5 * geoRect.h)

\* a region of odd width and odd height, scaled up
C17_Witness ==
    /\ geoPc = "scaled"
    /\ geoRect.w = 3 /\ geoRect.h = 1
    /\ geoCanvas.w = 7 /\ geoCanvas.h = 2

(***************************************************************************)
(* Properties of the processing flag and of the end of a run.              *)
(***************************************************************************)
\* C18: while the component is mounted and some run of performOCR has started
\* and not ended, isProcessing is true, also when runs overlap.
C18_ProcessingCoversInFlight ==
    (mounted /\ \E i \in Images : Started(i) /\ ~Finished(i)) => isProcessing

\* the run waits for the image load or for the recognition call, whose
\* outcome is still to come
AwaitingOutcome(i) == runs[i].pc \in {"loading", "recognizing"}

\* C19: given that the image load and the recognition call each succeed or
\* fail in the end, every started run ends with isProcessing false and with a
\* non-empty status: a started run either still awaits one of the two, or it
\* has ended with a status other than '', and once every started run has
\* ended isProcessing is false.
C19_RunsReachTerminalStatus ==
    mounted =>
        /\ \A i \in Images :
              Started(i) => \/ AwaitingOutcome(i)
                            \/ Finished(i) /\ runs[i].status # ""
        /\ (\A i \in Images : Started(i) => Finished(i)) => ~isProcessing

(***************************************************************************)
(* Properties of the value written to extractedReading.                    *)
(***************************************************************************)
\* an integer part of one to seven digits without a leading zero, or "0"
WellFormedInt(s) ==
    /\ Len(s) >= 1 /\ Len(s) <= IntDigits
    /\ \A k \in 1..Len(s) : IsDigit(s[k])
    /\ s[1] = "0" => s = <<"0">>

\* such an integer part, alone or followed by a comma and exactly one digit
WellFormedReading(s) ==
    \/ WellFormedInt(s)
    \/ /\ Len(s) >= 3
       /\ WellFormedInt(SubSeq(s, 1, Len(s) - 2))
       /\ s[Len(s) - 1] = ","
       /\ IsDigit(s[Len(s)])

\* C20: the value the extraction writes to extractedReading is 'No reading
\* detected' or a reading of one to seven digits without a leading zero (or
\* "0"), alone or followed by a comma and exactly one digit, whatever the
\* separator of the recognized text was.
C20_ReadingFormat ==
    exDone =>
        LET final == FormatReading(MatchReading(CleanText(exText)).reading)
        IN  \/ exReading = NoReadingDetected /\ final = <<>>
            \/ exReading = JoinStr(final) /\ WellFormedReading(final)

\* a text with leading zeros and a period
C20_Witness ==
    /\ exDone
    /\ exText = <<"0", "0", "0", "0", "0", "1", "1", ".", "1">>
    /\ exReading = "11,1"

(***************************************************************************)
(* Properties of the camera state.                                         *)
(***************************************************************************)
\* no call of startCamera has a timer, a request or a handler outstanding
NoCallPending == \A c \in Cams : cams[c].pc \in {"idle", "done"}

\* C21: while the component is mounted, isCameraActive implies that streamRef
\* holds a stream whose tracks have not been stopped, and once no call of
\* startCamera is pending a null streamRef implies that isCameraActive is
\* false, also when two calls of startCamera overlap with a capture.
C21_CameraStateConsistent ==
    mounted =>
        /\ isCameraActive => (streamRef # 0 /\ streamRef \in liveStreams)
        /\ (NoCallPending /\ streamRef = 0) => ~isCameraActive

=============================================================================
